---- MODULE Spec2Model ----
(***************************************************************************)
(* A model of the music-league record stores (competitor.py, round.py,     *)
(* submission.py, vote.py) and of the League aggregator (league.py).       *)
(*                                                                         *)
(* Python values are modelled as follows.                                  *)
(*   - a str field is a TLA+ string, except points_assigned, which is a    *)
(*     sequence of characters so that str.isdigit() and int() are computed *)
(*     character by character;                                             *)
(*   - an Optional[X] or a bool return value is a sequence: << >> is None, *)
(*     <<x>> is the value x;                                               *)
(*   - a list is a sequence; a dict is a sequence of [key, value] records  *)
(*     in insertion order;                                                 *)
(*   - a call outcome is a record [raised, value]: raised = "None" when    *)
(*     the call returned value, and the exception's name otherwise.        *)
(***************************************************************************)
EXTENDS Integers, Sequences, FiniteSets, TLC

VARIABLES
    competitors,      \* CompetitorsManager.competitors
    rounds,           \* RoundsManager.rounds
    submissions,      \* SubmissionsManager.submissions
    votes,            \* VotesManager.votes
    competitors_csv,  \* the records held by the file at CompetitorsManager.csv_path
    rounds_csv,       \* the records held by the file at RoundsManager.csv_path
    submissions_csv,  \* the records held by the file at SubmissionsManager.csv_path
    votes_csv,        \* the records held by the file at VotesManager.csv_path
    medium,           \* whether the storage medium accepts writes
    result            \* the last call: [op, args, ret, raised, saved]

vars == <<competitors, rounds, submissions, votes,
          competitors_csv, rounds_csv, submissions_csv, votes_csv,
          medium, result>>

memory == <<competitors, rounds, submissions, votes>>
files == <<competitors_csv, rounds_csv, submissions_csv, votes_csv>>

----------------------------------------------------------------------------
(* Bounds of the model.                                                    *)

\* the four stores together hold at most MaxRecords records (store operations)
MaxRecords == 3
\* the loaded leagues the aggregator queries are applied to hold at most
\* MaxLeague records in the four stores together
MaxLeague == 4

----------------------------------------------------------------------------
(* Generic helpers.                                                        *)

None == << >>
Some(x) == <<x>>

\* all sequences over S of length at most n
BoundedSeq(S, n) == UNION {[1..k -> S] : k \in 0..n}

\* the sequence s without its i-th element
RemoveAt(s, i) == [j \in 1..(Len(s) - 1) |-> IF j < i THEN s[j] ELSE s[j + 1]]

Prefixes(s) == {SubSeq(s, 1, k) : k \in 0..Len(s)}

Returned(v) == [raised |-> "None", value |-> v]
Raised(e) == [raised |-> e, value |-> None]

----------------------------------------------------------------------------
(* Record types.                                                           *)

Competitor(competitor_id, name) == [id |-> competitor_id, name |-> name]

Round(round_id, time_created, name, description, playlist_url) ==
    [id |-> round_id, time_created |-> time_created, name |-> name,
     description |-> description, playlist_url |-> playlist_url]

Submission(spotify_uri, title, album, artists, submitter_id, created, comment, round_id, visible_to_voters) ==
    [spotify_uri |-> spotify_uri, title |-> title, album |-> album,
     artists |-> artists, submitter_id |-> submitter_id, created |-> created,
     comment |-> comment, round_id |-> round_id,
     visible_to_voters |-> visible_to_voters]

Vote(spotify_uri, voter_id, created, points_assigned, comment, round_id) ==
    [spotify_uri |-> spotify_uri, voter_id |-> voter_id, created |-> created,
     points_assigned |-> points_assigned, comment |-> comment,
     round_id |-> round_id]

----------------------------------------------------------------------------
(* The file behind a manager.  _save_* opens the file for writing and      *)
(* writes every record of the in-memory list.  On a writable medium the   *)
(* file then holds exactly that list.  On an unwritable medium either      *)
(* open() raises OSError and the file keeps its content, or a write raises *)
(* OSError after open() truncated the file and some leading rows were      *)
(* written.  _load_* appends one record per row, in file order.            *)

\* a _save_* that opens the file for appending: the rows follow the old content
SaveOutcomes_appending(new, old) ==
    IF medium = "writable"
    THEN {[raised |-> "None", file |-> old \o new]}
    ELSE {[raised |-> "OSError", file |-> f] : f \in {old} \cup Prefixes(new)}

\* the outcomes of one _save_* call writing the list new over the content old
SaveOutcomes(new, old) ==
    IF medium = "writable"
    THEN {[raised |-> "None", file |-> new]}
    ELSE {[raised |-> "OSError", file |-> f] : f \in {old} \cup Prefixes(new)}

\* an operation that does not call _save_* leaves the file alone
NoSave(old) == {[raised |-> "None", file |-> old]}

Call(op, args, ret, raised, saved) ==
    [op |-> op, args |-> args, ret |-> ret, raised |-> raised, saved |-> saved]

\* the elements of the sequence s
Range(s) == {s[i] : i \in DOMAIN s}

\* index of the first element of list that is one of matching, 0 when there
\* is none (for x in list: if ...: return x)
FirstIndex(list, matching) ==
    IF \E i \in 1..Len(list) : list[i] \in matching
    THEN CHOOSE i \in 1..Len(list) :
             list[i] \in matching /\ \A j \in 1..(i - 1) : list[j] \notin matching
    ELSE 0

----------------------------------------------------------------------------
(* CompetitorsManager                                                      *)

CompetitorsManager_get_by_id(list, competitor_id) ==
    LET HasId(c) == c.id = competitor_id
        i == FirstIndex(list, {x \in Range(list) : HasId(x)})
    IN  IF i = 0 THEN None ELSE Some(list[i])

\* add_competitor without the lookup of the id: it appends in every case
CompetitorsManager_add_competitor_unchecked(list, competitor_id, name) ==
    [list |-> Append(list, Competitor(competitor_id, name)),
     saved |-> TRUE, ret |-> Some(Competitor(competitor_id, name))]

CompetitorsManager_add_competitor(list, competitor_id, name) ==
    IF CompetitorsManager_get_by_id(list, competitor_id) = None
    THEN [list |-> Append(list, Competitor(competitor_id, name)),
          saved |-> TRUE, ret |-> Some(Competitor(competitor_id, name))]
    ELSE [list |-> list, saved |-> FALSE, ret |-> None]

\* remove_competitor dropping every record with the id instead of the first
CompetitorsManager_remove_competitor_every(list, competitor_id) ==
    LET HasId(c) == c.id = competitor_id
        Others(c) == c.id # competitor_id
    IN  IF FirstIndex(list, {x \in Range(list) : HasId(x)}) # 0
        THEN [list |-> SelectSeq(list, Others), saved |-> TRUE, ret |-> Some(TRUE)]
        ELSE [list |-> list, saved |-> FALSE, ret |-> Some(FALSE)]

CompetitorsManager_remove_competitor(list, competitor_id) ==
    LET HasId(c) == c.id = competitor_id
        i == FirstIndex(list, {x \in Range(list) : HasId(x)})
    IN  IF i # 0
        THEN [list |-> RemoveAt(list, i), saved |-> TRUE, ret |-> Some(TRUE)]
        ELSE [list |-> list, saved |-> FALSE, ret |-> Some(FALSE)]

----------------------------------------------------------------------------
(* RoundsManager                                                           *)

RoundsManager_get_by_id(list, round_id) ==
    LET HasId(r) == r.id = round_id
        i == FirstIndex(list, {x \in Range(list) : HasId(x)})
    IN  IF i = 0 THEN None ELSE Some(list[i])

\* add_round inserting the new round in front instead of appending it
RoundsManager_add_round_in_front(list, round_id, time_created, name, description, playlist_url) ==
    LET game_round == Round(round_id, time_created, name, description,
                            playlist_url)
    IN  IF RoundsManager_get_by_id(list, round_id) = None
        THEN [list |-> <<game_round>> \o list, saved |-> TRUE,
              ret |-> Some(game_round)]
        ELSE [list |-> list, saved |-> FALSE, ret |-> None]

RoundsManager_add_round(list, round_id, time_created, name, description, playlist_url) ==
    LET game_round == Round(round_id, time_created, name, description,
                            playlist_url)
    IN  IF RoundsManager_get_by_id(list, round_id) = None
        THEN [list |-> Append(list, game_round), saved |-> TRUE,
              ret |-> Some(game_round)]
        ELSE [list |-> list, saved |-> FALSE, ret |-> None]

RoundsManager_remove_round(list, round_id) ==
    LET HasId(r) == r.id = round_id
        i == FirstIndex(list, {x \in Range(list) : HasId(x)})
    IN  IF i # 0
        THEN [list |-> RemoveAt(list, i), saved |-> TRUE, ret |-> Some(TRUE)]
        ELSE [list |-> list, saved |-> FALSE, ret |-> Some(FALSE)]

----------------------------------------------------------------------------
(* SubmissionsManager                                                      *)

SubmissionsManager_get_by_spotify_uri(list, spotify_uri) ==
    LET HasUri(s) == s.spotify_uri = spotify_uri
        i == FirstIndex(list, {x \in Range(list) : HasUri(x)})
    IN  IF i = 0 THEN None ELSE Some(list[i])

SubmissionsManager_get_by_submitter_id(list, submitter_id) ==
    LET BySubmitter(s) == s.submitter_id = submitter_id
    IN  SelectSeq(list, BySubmitter)

SubmissionsManager_get_by_round_id(list, round_id) ==
    LET InRound(s) == s.round_id = round_id
    IN  SelectSeq(list, InRound)

\* add_submission without the lookup, appending as add_vote does
SubmissionsManager_add_submission_unchecked(list, spotify_uri, title, album, artists, submitter_id, created, comment, round_id, visible_to_voters) ==
    LET submission == Submission(spotify_uri, title, album, artists,
                                 submitter_id, created, comment, round_id,
                                 visible_to_voters)
    IN  [list |-> Append(list, submission), saved |-> TRUE,
         ret |-> Some(submission)]

SubmissionsManager_add_submission(list, spotify_uri, title, album, artists, submitter_id, created, comment, round_id, visible_to_voters) ==
    LET submission == Submission(spotify_uri, title, album, artists,
                                 submitter_id, created, comment, round_id,
                                 visible_to_voters)
    IN  IF SubmissionsManager_get_by_spotify_uri(list, spotify_uri) = None
        THEN [list |-> Append(list, submission), saved |-> TRUE,
              ret |-> Some(submission)]
        ELSE [list |-> list, saved |-> FALSE, ret |-> None]

SubmissionsManager_remove_submission(list, spotify_uri) ==
    LET HasUri(s) == s.spotify_uri = spotify_uri
        i == FirstIndex(list, {x \in Range(list) : HasUri(x)})
    IN  IF i # 0
        THEN [list |-> RemoveAt(list, i), saved |-> TRUE, ret |-> Some(TRUE)]
        ELSE [list |-> list, saved |-> FALSE, ret |-> Some(FALSE)]

----------------------------------------------------------------------------
(* VotesManager                                                            *)

VotesManager_get_by_spotify_uri(list, spotify_uri) ==
    LET HasUri(v) == v.spotify_uri = spotify_uri
    IN  SelectSeq(list, HasUri)

VotesManager_get_by_voter_id(list, voter_id) ==
    LET ByVoter(v) == v.voter_id = voter_id
    IN  SelectSeq(list, ByVoter)

VotesManager_get_by_round_id(list, round_id) ==
    LET InRound(v) == v.round_id = round_id
    IN  SelectSeq(list, InRound)

\* add_vote makes no lookup: it appends and saves whatever the list holds
VotesManager_add_vote(list, spotify_uri, voter_id, created, points_assigned, comment, round_id) ==
    LET vote == Vote(spotify_uri, voter_id, created, points_assigned, comment,
                     round_id)
    IN  [list |-> Append(list, vote), saved |-> TRUE, ret |-> Some(vote)]

VotesManager_remove_vote(list, spotify_uri, voter_id, round_id) ==
    LET Matches(v) == /\ v.spotify_uri = spotify_uri
                      /\ v.voter_id = voter_id
                      /\ v.round_id = round_id
        i == FirstIndex(list, {x \in Range(list) : Matches(x)})
    IN  IF i # 0
        THEN [list |-> RemoveAt(list, i), saved |-> TRUE, ret |-> Some(TRUE)]
        ELSE [list |-> list, saved |-> FALSE, ret |-> Some(FALSE)]

----------------------------------------------------------------------------
(* Inputs of the store operations.                                         *)

CompetitorIds == {"c1", "c2"}
Names == {"Ann", "Bob"}
RoundIds == {"r1", "r2"}
RoundNames == {"Covers", "Debuts"}
Uris == {"t1", "t2"}

\* points_assigned texts; "sup2" stands for the character SUPERSCRIPT TWO and
\* "ar3" for ARABIC-INDIC DIGIT THREE
Two == <<"2">>
Ten == <<"1", "0">>
Blank == << >>
NotApplicable == <<"n", "/", "a">>
MinusOne == <<"-", "1">>
PlusTwo == <<"+", "2">>
Fraction == <<"2", ".", "5">>
Squared == <<"sup2">>
ArabicThree == <<"ar3">>

StoreCompetitors == {Competitor(i, n) : i \in CompetitorIds, n \in Names}
StoreRounds ==
    {Round(i, "2025-01-01", n, "theme", "playlist") : i \in RoundIds, n \in RoundNames}
StoreSubmissions ==
    {Submission(u, "Title", "Album", "Artist", c, "2025-01-02", "", "r1", "Yes") :
        u \in Uris, c \in CompetitorIds}
StoreVotes ==
    {Vote("t1", c, "2025-01-03", p, "", "r1") :
        c \in CompetitorIds, p \in {Two, NotApplicable}}

TotalRecords == Len(competitors) + Len(rounds) + Len(submissions) + Len(votes)

\* an operation may grow a store only while the league is below MaxRecords
WithinBound(call, list) == Len(call.list) <= Len(list) \/ TotalRecords < MaxRecords

Written(call, old) == IF call.saved THEN SaveOutcomes(call.list, old) ELSE NoSave(old)

\* what the caller gets: the return value, or nothing when _save_* raised
Outcome(op, args, call, w) ==
    Call(op, args, IF w.raised = "None" THEN call.ret ELSE None, w.raised, call.saved)

----------------------------------------------------------------------------
(* Store operations: one action per public mutating method.                *)

AddCompetitor(competitor_id, name) ==
    LET call == CompetitorsManager_add_competitor(competitors, competitor_id, name)
    IN  /\ WithinBound(call, competitors)
        /\ \E w \in Written(call, competitors_csv) :
              /\ competitors' = call.list
              /\ competitors_csv' = w.file
              /\ result' = Outcome("add_competitor", <<competitor_id, name>>, call, w)
        /\ UNCHANGED <<rounds, submissions, votes,
                       rounds_csv, submissions_csv, votes_csv, medium>>

\* remove_competitor cascading to the submissions of the competitor
RemoveCompetitor_cascading(competitor_id) ==
    LET call == CompetitorsManager_remove_competitor(competitors, competitor_id)
        Others(s) == s.submitter_id # competitor_id
        kept == IF call.saved THEN SelectSeq(submissions, Others) ELSE submissions
    IN  /\ \E w \in Written(call, competitors_csv) :
              /\ competitors' = call.list
              /\ competitors_csv' = w.file
              /\ result' = Outcome("remove_competitor", <<competitor_id>>, call, w)
        /\ submissions' = kept
        /\ submissions_csv' = kept
        /\ UNCHANGED <<rounds, votes, rounds_csv, votes_csv, medium>>

RemoveCompetitor(competitor_id) ==
    LET call == CompetitorsManager_remove_competitor(competitors, competitor_id)
    IN  /\ \E w \in Written(call, competitors_csv) :
              /\ competitors' = call.list
              /\ competitors_csv' = w.file
              /\ result' = Outcome("remove_competitor", <<competitor_id>>, call, w)
        /\ UNCHANGED <<rounds, submissions, votes,
                       rounds_csv, submissions_csv, votes_csv, medium>>

AddRound(round_id, time_created, name, description, playlist_url) ==
    LET call == RoundsManager_add_round(rounds, round_id, time_created, name,
                                        description, playlist_url)
    IN  /\ WithinBound(call, rounds)
        /\ \E w \in Written(call, rounds_csv) :
              /\ rounds' = call.list
              /\ rounds_csv' = w.file
              /\ result' = Outcome("add_round",
                                   <<round_id, time_created, name, description,
                                     playlist_url>>, call, w)
        /\ UNCHANGED <<competitors, submissions, votes,
                       competitors_csv, submissions_csv, votes_csv, medium>>

RemoveRound(round_id) ==
    LET call == RoundsManager_remove_round(rounds, round_id)
    IN  /\ \E w \in Written(call, rounds_csv) :
              /\ rounds' = call.list
              /\ rounds_csv' = w.file
              /\ result' = Outcome("remove_round", <<round_id>>, call, w)
        /\ UNCHANGED <<competitors, submissions, votes,
                       competitors_csv, submissions_csv, votes_csv, medium>>

AddSubmission(s) ==
    LET call == SubmissionsManager_add_submission(
                    submissions, s.spotify_uri, s.title, s.album, s.artists,
                    s.submitter_id, s.created, s.comment, s.round_id,
                    s.visible_to_voters)
    IN  /\ WithinBound(call, submissions)
        /\ \E w \in Written(call, submissions_csv) :
              /\ submissions' = call.list
              /\ submissions_csv' = w.file
              /\ result' = Outcome("add_submission",
                                   <<s.spotify_uri, s.title, s.album, s.artists,
                                     s.submitter_id, s.created, s.comment,
                                     s.round_id, s.visible_to_voters>>, call, w)
        /\ UNCHANGED <<competitors, rounds, votes,
                       competitors_csv, rounds_csv, votes_csv, medium>>

RemoveSubmission(spotify_uri) ==
    LET call == SubmissionsManager_remove_submission(submissions, spotify_uri)
    IN  /\ \E w \in Written(call, submissions_csv) :
              /\ submissions' = call.list
              /\ submissions_csv' = w.file
              /\ result' = Outcome("remove_submission", <<spotify_uri>>, call, w)
        /\ UNCHANGED <<competitors, rounds, votes,
                       competitors_csv, rounds_csv, votes_csv, medium>>

AddVote(v) ==
    LET call == VotesManager_add_vote(votes, v.spotify_uri, v.voter_id, v.created,
                                      v.points_assigned, v.comment, v.round_id)
    IN  /\ WithinBound(call, votes)
        /\ \E w \in Written(call, votes_csv) :
              /\ votes' = call.list
              /\ votes_csv' = w.file
              /\ result' = Outcome("add_vote",
                                   <<v.spotify_uri, v.voter_id, v.created,
                                     v.points_assigned, v.comment, v.round_id>>,
                                   call, w)
        /\ UNCHANGED <<competitors, rounds, submissions,
                       competitors_csv, rounds_csv, submissions_csv, medium>>

RemoveVote(spotify_uri, voter_id, round_id) ==
    LET call == VotesManager_remove_vote(votes, spotify_uri, voter_id, round_id)
    IN  /\ \E w \in Written(call, votes_csv) :
              /\ votes' = call.list
              /\ votes_csv' = w.file
              /\ result' = Outcome("remove_vote", <<spotify_uri, voter_id, round_id>>,
                                   call, w)
        /\ UNCHANGED <<competitors, rounds, submissions,
                       competitors_csv, rounds_csv, submissions_csv, medium>>

----------------------------------------------------------------------------
(* The record stores: League.__init__ loads the four files, which hold any *)
(* rows (the loaders check nothing, so keys may repeat), then the public    *)
(* mutating methods are called in any order.  Under Spec the medium stays  *)
(* writable.                                                               *)

Loaded == Call("load", << >>, None, "None", FALSE)

Init ==
    /\ competitors \in BoundedSeq(StoreCompetitors, MaxRecords)
    /\ rounds \in BoundedSeq(StoreRounds, MaxRecords - Len(competitors))
    /\ submissions \in BoundedSeq(StoreSubmissions,
                                  MaxRecords - Len(competitors) - Len(rounds))
    /\ votes \in BoundedSeq(StoreVotes,
                            MaxRecords - Len(competitors) - Len(rounds)
                                - Len(submissions))
    /\ competitors_csv = competitors
    /\ rounds_csv = rounds
    /\ submissions_csv = submissions
    /\ votes_csv = votes
    /\ medium = "writable"
    /\ result = Loaded

Next ==
    \/ \E c \in StoreCompetitors : AddCompetitor(c.id, c.name)
    \/ \E i \in CompetitorIds : RemoveCompetitor(i)
    \/ \E r \in StoreRounds :
          AddRound(r.id, r.time_created, r.name, r.description, r.playlist_url)
    \/ \E i \in RoundIds : RemoveRound(i)
    \/ \E s \in StoreSubmissions : AddSubmission(s)
    \/ \E u \in Uris : RemoveSubmission(u)
    \/ \E v \in StoreVotes : AddVote(v)
    \/ \E v \in StoreVotes : RemoveVote(v.spotify_uri, v.voter_id, v.round_id)

Spec == Init /\ [][Next]_vars

----------------------------------------------------------------------------
(* The record stores on a medium that can stop accepting writes (a full    *)
(* disk, a file made read-only) and accept them again: open(csv_path, 'w') *)
(* or a later write then raises OSError out of _save_* and out of the      *)
(* add_* or remove_* that called it.                                       *)

MediumFails ==
    /\ medium = "writable"
    /\ medium' = "unwritable"
    /\ UNCHANGED <<memory, files, result>>

MediumRecovers ==
    /\ medium = "unwritable"
    /\ medium' = "writable"
    /\ UNCHANGED <<memory, files, result>>

\* the records the files hold and the calls supply while the medium changes
IOCompetitors == {Competitor("c1", "Ann")}
IORounds == {Round("r1", "2025-01-01", "Covers", "theme", "playlist")}
IOSubmissions ==
    {Submission("t1", "Title", "Album", "Artist", "c1", "2025-01-02", "", "r1", "Yes")}
IOVotes == {Vote("t1", "c1", "2025-01-03", Two, "", "r1")}

InitIO ==
    /\ competitors \in BoundedSeq(IOCompetitors, MaxRecords)
    /\ rounds \in BoundedSeq(IORounds, MaxRecords - Len(competitors))
    /\ submissions \in BoundedSeq(IOSubmissions,
                                  MaxRecords - Len(competitors) - Len(rounds))
    /\ votes \in BoundedSeq(IOVotes,
                            MaxRecords - Len(competitors) - Len(rounds)
                                - Len(submissions))
    /\ competitors_csv = competitors
    /\ rounds_csv = rounds
    /\ submissions_csv = submissions
    /\ votes_csv = votes
    /\ medium \in {"writable", "unwritable"}
    /\ result = Loaded

NextIO ==
    \/ \E c \in IOCompetitors : AddCompetitor(c.id, c.name)
    \/ \E c \in IOCompetitors : RemoveCompetitor(c.id)
    \/ \E r \in IORounds :
          AddRound(r.id, r.time_created, r.name, r.description, r.playlist_url)
    \/ \E r \in IORounds : RemoveRound(r.id)
    \/ \E s \in IOSubmissions : AddSubmission(s)
    \/ \E s \in IOSubmissions : RemoveSubmission(s.spotify_uri)
    \/ \E v \in IOVotes : AddVote(v)
    \/ \E v \in IOVotes : RemoveVote(v.spotify_uri, v.voter_id, v.round_id)
    \/ MediumFails
    \/ MediumRecovers

SpecIO == InitIO /\ [][NextIO]_vars

----------------------------------------------------------------------------
(* Python's str.isdigit() and int() on a points_assigned text.             *)
(* str.isdigit() accepts a non-empty text of characters whose Unicode      *)
(* Numeric_Type is Decimal or Digit; int() accepts an optional sign and    *)
(* then decimal characters only, and raises ValueError otherwise.          *)

AsciiDigits == {"0", "1", "2", "3", "4", "5", "6", "7", "8", "9"}
DecimalChars == AsciiDigits \cup {"ar3"}
DigitChars == DecimalChars \cup {"sup2"}

str_isdigit(text) ==
    /\ Len(text) > 0
    /\ \A i \in 1..Len(text) : text[i] \in DigitChars

DecimalValue(ch) ==
    CASE ch = "0" -> 0 [] ch = "1" -> 1 [] ch = "2" -> 2 [] ch = "3" -> 3
      [] ch = "4" -> 4 [] ch = "5" -> 5 [] ch = "6" -> 6 [] ch = "7" -> 7
      [] ch = "8" -> 8 [] ch = "9" -> 9 [] ch = "ar3" -> 3

RECURSIVE DecimalNumber(_)
DecimalNumber(text) ==
    IF text = << >> THEN 0
    ELSE 10 * DecimalNumber(SubSeq(text, 1, Len(text) - 1))
         + DecimalValue(text[Len(text)])

int(text) ==
    LET signed == Len(text) > 0 /\ text[1] \in {"+", "-"}
        body == IF signed THEN Tail(text) ELSE text
    IN  IF body # << >> /\ \A i \in 1..Len(body) : body[i] \in DecimalChars
        THEN Returned((IF signed /\ text[1] = "-" THEN -1 ELSE 1) * DecimalNumber(body))
        ELSE Raised("ValueError")

\* sum(int(v.points_assigned) for v in list if str(v.points_assigned).isdigit())
RECURSIVE SumPoints(_)
SumPoints(list) ==
    IF list = << >> THEN Returned(0)
    ELSE LET v == Head(list)
         IN  IF ~str_isdigit(v.points_assigned) THEN SumPoints(Tail(list))
             ELSE LET n == int(v.points_assigned)
                      rest == SumPoints(Tail(list))
                  IN  IF n.raised # "None" THEN n
                      ELSE IF rest.raised # "None" THEN rest
                      ELSE Returned(n.value + rest.value)

----------------------------------------------------------------------------
(* League: the aggregator over the four managers.                          *)

get_submissions_by_competitor(competitor_id) ==
    SubmissionsManager_get_by_submitter_id(submissions, competitor_id)

get_submissions_by_round(round_id) ==
    SubmissionsManager_get_by_round_id(submissions, round_id)

get_votes_for_submission(spotify_uri) ==
    VotesManager_get_by_spotify_uri(votes, spotify_uri)

get_votes_by_competitor(competitor_id) ==
    LET competitor_subs == get_submissions_by_competitor(competitor_id)
        uris == {competitor_subs[i].spotify_uri : i \in 1..Len(competitor_subs)}
        OnUris(v) == v.spotify_uri \in uris
    IN  SelectSeq(votes, OnUris)

\* get_rounds_for_competitor collecting the round_ids in a list, not a set:
\* the rounds of every submission in turn, a round once per submission
RECURSIVE RoundsPerSubmission(_)
RoundsPerSubmission(subs) ==
    IF subs = << >> THEN << >>
    ELSE LET OfHead(r) == r.id = Head(subs).round_id
         IN  SelectSeq(rounds, OfHead) \o RoundsPerSubmission(Tail(subs))

get_rounds_for_competitor_per_submission(competitor_id) ==
    RoundsPerSubmission(get_submissions_by_competitor(competitor_id))

get_rounds_for_competitor(competitor_id) ==
    LET subs == get_submissions_by_competitor(competitor_id)
        round_ids == {subs[i].round_id : i \in 1..Len(subs)}
        Participated(r) == r.id \in round_ids
    IN  SelectSeq(rounds, Participated)

tally_competitor_score(competitor_id) ==
    SumPoints(get_votes_by_competitor(competitor_id))

\* scores.get(key, default) on a dict held as a sequence of [key, value]
DictGet(dict, key, default) ==
    IF \E i \in 1..Len(dict) : dict[i].key = key
    THEN LET i == CHOOSE i \in 1..Len(dict) : dict[i].key = key IN dict[i].value
    ELSE default

\* scores[key] = value: a present key keeps its place, a new key goes last
DictSet(dict, key, value) ==
    IF \E i \in 1..Len(dict) : dict[i].key = key
    THEN [i \in 1..Len(dict) |->
             IF dict[i].key = key THEN [key |-> key, value |-> value] ELSE dict[i]]
    ELSE Append(dict, [key |-> key, value |-> value])

DictKeys(dict) == {dict[i].key : i \in 1..Len(dict)}

\* the for loop of tally_scores_by_round over the submissions still to visit
RECURSIVE TallyLoop(_, _)
TallyLoop(subs, scores) ==
    IF subs = << >> THEN Returned(scores)
    ELSE LET sub == Head(subs)
             total == SumPoints(get_votes_for_submission(sub.spotify_uri))
         IN  IF total.raised # "None" THEN total
             ELSE TallyLoop(Tail(subs),
                            DictSet(scores, sub.submitter_id,
                                    DictGet(scores, sub.submitter_id, 0) + total.value))

tally_scores_by_round(round_id) ==
    TallyLoop(get_submissions_by_round(round_id), << >>)

RECURSIVE Gcd(_, _)
Gcd(a, b) == IF b = 0 THEN a ELSE Gcd(b, a % b)

\* score / rounds, Python's true division of a non-negative by a positive
\* int: the quotient is held as the fraction in lowest terms, which two
\* float quotients of small ints share exactly when the floats are equal
TrueDiv(score, n) == [num |-> score \div Gcd(score, n), den |-> n \div Gcd(score, n)]
Zero == [num |-> 0, den |-> 1]

\* the dict that get_leaderboard builds for one competitor
LeaderboardEntry(competitor, score) ==
    LET n == Len(get_rounds_for_competitor(competitor.id))
    IN  [competitor |-> competitor,
         score |-> score,
         rounds |-> n,
         avg_score |-> IF n # 0 THEN TrueDiv(score, n) ELSE Zero,
         name |-> competitor.name]

\* the for loop of get_leaderboard over the competitors still to visit
RECURSIVE LeaderboardLoop(_, _)
LeaderboardLoop(list, leaderboard) ==
    IF list = << >> THEN Returned(leaderboard)
    ELSE LET competitor == Head(list)
             score == tally_competitor_score(competitor.id)
         IN  IF score.raised # "None" THEN score
             ELSE LeaderboardLoop(Tail(list),
                      Append(leaderboard, LeaderboardEntry(competitor, score.value)))

\* a descending sort that puts an entry in front of the entries of equal
\* score (an ascending stable sort followed by reverse())
InsertByScore_ties_first(sorted, entry) ==
    LET k == Cardinality({i \in 1..Len(sorted) : sorted[i].score > entry.score})
    IN  SubSeq(sorted, 1, k) \o <<entry>> \o SubSeq(sorted, k + 1, Len(sorted))

\* where list.sort(key=score, reverse=True) puts entry among the entries
\* sorted so far: behind every entry whose score is at least as high
InsertByScore(sorted, entry) ==
    LET k == Cardinality({i \in 1..Len(sorted) : sorted[i].score >= entry.score})
    IN  SubSeq(sorted, 1, k) \o <<entry>> \o SubSeq(sorted, k + 1, Len(sorted))

\* leaderboard.sort(key=lambda x: x['score'], reverse=True), a stable sort
RECURSIVE SortByScoreReverse(_)
SortByScoreReverse(leaderboard) ==
    IF leaderboard = << >> THEN << >>
    ELSE InsertByScore(
             SortByScoreReverse(SubSeq(leaderboard, 1, Len(leaderboard) - 1)),
             leaderboard[Len(leaderboard)])

get_leaderboard ==
    LET built == LeaderboardLoop(competitors, << >>)
    IN  IF built.raised # "None" THEN built
        ELSE Returned(SortByScoreReverse(built.value))

----------------------------------------------------------------------------
(* LeagueStats: the global statistics (league_stats.py).  A tuple (a, b)   *)
(* is the sequence <<a, b>>.                                               *)

\* a max that keeps the last item of greatest value (a scan comparing with >=)
MaxItem_last(dict) ==
    LET i == CHOOSE i \in 1..Len(dict) :
                 /\ \A j \in 1..Len(dict) : dict[j].value <= dict[i].value
                 /\ \A j \in (i + 1)..Len(dict) : dict[j].value < dict[i].value
    IN  <<dict[i].key, dict[i].value>>

\* max(dict.items(), key=lambda x: x[1]): the first item of greatest value
MaxItem(dict) ==
    LET i == CHOOSE i \in 1..Len(dict) :
                 /\ \A j \in 1..Len(dict) : dict[j].value <= dict[i].value
                 /\ \A j \in 1..(i - 1) : dict[j].value < dict[i].value
    IN  <<dict[i].key, dict[i].value>>

\* min(dict.items(), key=lambda x: x[1]): the first item of least value
MinItem(dict) ==
    LET i == CHOOSE i \in 1..Len(dict) :
                 /\ \A j \in 1..Len(dict) : dict[j].value >= dict[i].value
                 /\ \A j \in 1..(i - 1) : dict[j].value > dict[i].value
    IN  <<dict[i].key, dict[i].value>>

\* the for loop of most_voted_submission over the votes still to visit
RECURSIVE VoteCountsLoop(_, _)
VoteCountsLoop(list, vote_counts) ==
    IF list = << >> THEN vote_counts
    ELSE LET vote == Head(list)
         IN  VoteCountsLoop(Tail(list),
                 DictSet(vote_counts, vote.spotify_uri,
                         DictGet(vote_counts, vote.spotify_uri, 0) + 1))

most_voted_submission ==
    LET vote_counts == VoteCountsLoop(votes, << >>)
    IN  Returned(IF vote_counts = << >> THEN None ELSE Some(MaxItem(vote_counts)))

\* the for loop shared by highest_scoring_submission (field = "spotify_uri"),
\* most_generous_voter and most_critical_voter (field = "voter_id")
RECURSIVE PointsLoop(_, _, _)
PointsLoop(list, field, points) ==
    IF list = << >> THEN Returned(points)
    ELSE LET vote == Head(list)
         IN  IF ~str_isdigit(vote.points_assigned)
             THEN PointsLoop(Tail(list), field, points)
             ELSE LET n == int(vote.points_assigned)
                  IN  IF n.raised # "None" THEN n
                      ELSE PointsLoop(Tail(list), field,
                               DictSet(points, vote[field],
                                       DictGet(points, vote[field], 0) + n.value))

highest_scoring_submission ==
    LET score_counts == PointsLoop(votes, "spotify_uri", << >>)
    IN  IF score_counts.raised # "None" THEN score_counts
        ELSE Returned(IF score_counts.value = << >> THEN None
                      ELSE Some(MaxItem(score_counts.value)))

most_generous_voter ==
    LET voter_points == PointsLoop(votes, "voter_id", << >>)
    IN  IF voter_points.raised # "None" THEN voter_points
        ELSE Returned(IF voter_points.value = << >> THEN None
                      ELSE Some(MaxItem(voter_points.value)))

most_critical_voter ==
    LET voter_points == PointsLoop(votes, "voter_id", << >>)
    IN  IF voter_points.raised # "None" THEN voter_points
        ELSE Returned(IF voter_points.value = << >> THEN None
                      ELSE Some(MinItem(voter_points.value)))

\* sum(sum(int(v.points_assigned) for v in votes of sub if ...) for sub in subs)
RECURSIVE SumOverSubmissions(_)
SumOverSubmissions(subs) ==
    IF subs = << >> THEN Returned(0)
    ELSE LET points == SumPoints(get_votes_for_submission(Head(subs).spotify_uri))
             rest == SumOverSubmissions(Tail(subs))
         IN  IF points.raised # "None" THEN points
             ELSE IF rest.raised # "None" THEN rest
             ELSE Returned(points.value + rest.value)

\* the for loop of average_points_per_competitor over the competitors still
\* to visit
RECURSIVE AveragesLoop(_, _)
AveragesLoop(list, averages) ==
    IF list = << >> THEN Returned(averages)
    ELSE LET competitor == Head(list)
             subs == get_submissions_by_competitor(competitor.id)
             total_points == SumOverSubmissions(subs)
         IN  IF subs = << >> THEN AveragesLoop(Tail(list), averages)
             ELSE IF total_points.raised # "None" THEN total_points
             ELSE AveragesLoop(Tail(list),
                      DictSet(averages, competitor.id,
                              TrueDiv(total_points.value, Len(subs))))

average_points_per_competitor == AveragesLoop(competitors, << >>)

----------------------------------------------------------------------------
(* LeagueStats.competitor_stats: the profile of one competitor.            *)

get_submission_by_uri(spotify_uri) ==
    SubmissionsManager_get_by_spotify_uri(submissions, spotify_uri)

\* the best-submission loop over the submissions still to visit
RECURSIVE BestLoop(_, _, _)
BestLoop(subs, best_submission, best_points) ==
    IF subs = << >>
    THEN Returned([best_submission |-> best_submission, best_points |-> best_points])
    ELSE LET sub == Head(subs)
             points == SumPoints(get_votes_for_submission(sub.spotify_uri))
         IN  IF points.raised # "None" THEN points
             ELSE IF points.value > best_points
             THEN BestLoop(Tail(subs), Some(sub), points.value)
             ELSE BestLoop(Tail(subs), best_submission, best_points)

\* the loop over the votes cast by the competitor that are still to visit
RECURSIVE CastLoop(_, _, _)
CastLoop(list, votes_cast, points_given) ==
    IF list = << >>
    THEN Returned([votes_cast |-> votes_cast, points_given |-> points_given])
    ELSE LET vote == Head(list)
             sub == get_submission_by_uri(vote.spotify_uri)
         IN  IF sub = None THEN CastLoop(Tail(list), votes_cast, points_given)
             ELSE IF ~str_isdigit(vote.points_assigned)
             THEN CastLoop(Tail(list), Append(votes_cast, sub[1].submitter_id),
                           points_given)
             ELSE LET n == int(vote.points_assigned)
                      to == sub[1].submitter_id
                  IN  IF n.raised # "None" THEN n
                      ELSE CastLoop(Tail(list), Append(votes_cast, to),
                               DictSet(points_given, to,
                                       DictGet(points_given, to, 0) + n.value))

\* the loop over the votes received by the competitor that are still to visit
RECURSIVE ReceivedLoop(_, _, _)
ReceivedLoop(list, received_from, points_received_from) ==
    IF list = << >>
    THEN Returned([received_from |-> received_from,
                   points_received_from |-> points_received_from])
    ELSE LET vote == Head(list)
             from == vote.voter_id
         IN  IF ~str_isdigit(vote.points_assigned)
             THEN ReceivedLoop(Tail(list), Append(received_from, from),
                               points_received_from)
             ELSE LET n == int(vote.points_assigned)
                  IN  IF n.raised # "None" THEN n
                      ELSE ReceivedLoop(Tail(list), Append(received_from, from),
                               DictSet(points_received_from, from,
                                       DictGet(points_received_from, from, 0)
                                           + n.value))

\* Counter(list): the elements with their counts, in order of first occurrence
RECURSIVE Counter(_, _)
Counter(list, counts) ==
    IF list = << >> THEN counts
    ELSE Counter(Tail(list),
                 DictSet(counts, Head(list), DictGet(counts, Head(list), 0) + 1))

\* (competitors.get_by_id(id), count) for Counter(ids).most_common(1)[0],
\* None for no ids
MostOften(ids) ==
    IF ids = << >> THEN None
    ELSE LET top == MaxItem(Counter(ids, << >>))
         IN  Some(<<CompetitorsManager_get_by_id(competitors, top[1]), top[2]>>)

\* (competitors.get_by_id(id), points[id]) for id = max(points, key=points.get),
\* None for an empty dict
MostPoints(points) ==
    IF points = << >> THEN None
    ELSE LET top == MaxItem(points)
         IN  Some(<<CompetitorsManager_get_by_id(competitors, top[1]), top[2]>>)

competitor_stats(competitor_id) ==
    LET votes_received == get_votes_by_competitor(competitor_id)
        total == tally_competitor_score(competitor_id)
        rounds_in == get_rounds_for_competitor(competitor_id)
        subs == get_submissions_by_competitor(competitor_id)
        best == BestLoop(subs, None, -1)
        cast == CastLoop(VotesManager_get_by_voter_id(votes, competitor_id),
                         << >>, << >>)
        received == ReceivedLoop(votes_received, << >>, << >>)
    IN  IF total.raised # "None" THEN total
        ELSE IF best.raised # "None" THEN best
        ELSE IF cast.raised # "None" THEN cast
        ELSE IF received.raised # "None" THEN received
        ELSE Returned(
            [total_votes_received |-> total.value,
             rounds_participated |-> Len(rounds_in),
             best_submission |->
                 IF best.value.best_submission # None
                 THEN Some(<<best.value.best_submission[1], best.value.best_points>>)
                 ELSE None,
             most_often_voted_for |-> MostOften(cast.value.votes_cast),
             most_points_given_to |-> MostPoints(cast.value.points_given),
             most_often_votes_from |-> MostOften(received.value.received_from),
             most_points_from |-> MostPoints(received.value.points_received_from)])

----------------------------------------------------------------------------
(* Aggregator queries: one action per public query method.  A query reads  *)
(* the stores and changes none of them.                                    *)

stores == <<competitors, rounds, submissions, votes,
            competitors_csv, rounds_csv, submissions_csv, votes_csv, medium>>

\* what the caller of a query gets
Answer(op, args, out) ==
    Call(op, args, IF out.raised = "None" THEN Some(out.value) ELSE None,
         out.raised, FALSE)

GetSubmissionsByCompetitor(competitor_id) ==
    /\ result' = Answer("get_submissions_by_competitor", <<competitor_id>>,
                        Returned(get_submissions_by_competitor(competitor_id)))
    /\ UNCHANGED stores

GetVotesByCompetitor(competitor_id) ==
    /\ result' = Answer("get_votes_by_competitor", <<competitor_id>>,
                        Returned(get_votes_by_competitor(competitor_id)))
    /\ UNCHANGED stores

GetRoundsForCompetitor(competitor_id) ==
    /\ result' = Answer("get_rounds_for_competitor", <<competitor_id>>,
                        Returned(get_rounds_for_competitor(competitor_id)))
    /\ UNCHANGED stores

TallyCompetitorScore(competitor_id) ==
    /\ result' = Answer("tally_competitor_score", <<competitor_id>>,
                        tally_competitor_score(competitor_id))
    /\ UNCHANGED stores

TallyScoresByRound(round_id) ==
    /\ result' = Answer("tally_scores_by_round", <<round_id>>,
                        tally_scores_by_round(round_id))
    /\ UNCHANGED stores

GetLeaderboard ==
    /\ result' = Answer("get_leaderboard", << >>, get_leaderboard)
    /\ UNCHANGED stores

----------------------------------------------------------------------------
(* LeagueStats queries: one action per public method.                      *)

MostVotedSubmission ==
    /\ result' = Answer("most_voted_submission", << >>, most_voted_submission)
    /\ UNCHANGED stores

HighestScoringSubmission ==
    /\ result' = Answer("highest_scoring_submission", << >>,
                        highest_scoring_submission)
    /\ UNCHANGED stores

AveragePointsPerCompetitor ==
    /\ result' = Answer("average_points_per_competitor", << >>,
                        average_points_per_competitor)
    /\ UNCHANGED stores

MostGenerousVoter ==
    /\ result' = Answer("most_generous_voter", << >>, most_generous_voter)
    /\ UNCHANGED stores

MostCriticalVoter ==
    /\ result' = Answer("most_critical_voter", << >>, most_critical_voter)
    /\ UNCHANGED stores

CompetitorStats(competitor_id) ==
    /\ result' = Answer("competitor_stats", <<competitor_id>>,
                        competitor_stats(competitor_id))
    /\ UNCHANGED stores

----------------------------------------------------------------------------
(* Loaded leagues.  The files hold any rows: ids may repeat, and the ids a *)
(* submission or a vote names need not exist.                              *)

LeagueCompetitors ==
    {Competitor("c1", "Ann"), Competitor("c1", "Al"), Competitor("c2", "Bob")}
LeagueRounds ==
    {Round("r1", "2025-01-01", "Covers", "theme", "playlist"),
     Round("r2", "2025-02-01", "Debuts", "theme", "playlist")}
LeagueSubmissions ==
    {Submission(u, "Title", "Album", "Artist", c, "2025-01-02", "", r, "Yes") :
        u \in Uris, c \in CompetitorIds, r \in RoundIds}
LeagueVotes ==
    {Vote(u, "c1", "2025-01-03", p, "", "r1") :
        u \in Uris, p \in {Two, NotApplicable, Squared}}

\* League.__init__ on files whose rows are drawn from C, R, S and V
LoadedLeague(C, R, S, V) ==
    /\ competitors \in BoundedSeq(C, MaxLeague)
    /\ rounds \in BoundedSeq(R, MaxLeague - Len(competitors))
    /\ submissions \in BoundedSeq(S, MaxLeague - Len(competitors) - Len(rounds))
    /\ votes \in BoundedSeq(V, MaxLeague - Len(competitors) - Len(rounds)
                                   - Len(submissions))
    /\ competitors_csv = competitors
    /\ rounds_csv = rounds
    /\ submissions_csv = submissions
    /\ votes_csv = votes
    /\ medium = "writable"
    /\ result = Loaded

\* rounds_of on leagues of rounds and submissions
InitRounds == LoadedLeague({}, LeagueRounds, LeagueSubmissions, {})
NextRounds == \E c \in CompetitorIds : GetRoundsForCompetitor(c)
SpecRounds == InitRounds /\ [][NextRounds]_vars

\* score_of and round_score_table on leagues of submissions and votes
InitScore == LoadedLeague({}, {}, LeagueSubmissions, LeagueVotes)
NextScore ==
    \/ \E c \in CompetitorIds : TallyCompetitorScore(c)
    \/ \E r \in RoundIds : TallyScoresByRound(r)
SpecScore == InitScore /\ [][NextScore]_vars

\* leaderboard on leagues of all four record types, the submissions in r1
InitBoard ==
    LoadedLeague(LeagueCompetitors,
                 {r \in LeagueRounds : r.id = "r1"},
                 {s \in LeagueSubmissions : s.round_id = "r1"},
                 LeagueVotes)
NextBoard == GetLeaderboard
SpecBoard == InitBoard /\ [][NextBoard]_vars

\* the global vote statistics on leagues of votes
StatsVotes ==
    {Vote(u, c, "2025-01-03", p, "", "r1") :
        u \in Uris, c \in CompetitorIds, p \in {Two, NotApplicable}}
    \cup {Vote("t1", "c1", "2025-01-03", Squared, "", "r1")}
InitVotes == LoadedLeague({}, {}, {}, StatsVotes)
NextVotes ==
    \/ MostVotedSubmission
    \/ HighestScoringSubmission
    \/ MostGenerousVoter
    \/ MostCriticalVoter
SpecVotes == InitVotes /\ [][NextVotes]_vars

\* the profiles and the averages on leagues of all four record types
ProfileCompetitors == {Competitor("c1", "Ann"), Competitor("c2", "Bob")}
ProfileSubmissions ==
    {Submission(u, "Title", "Album", "Artist", c, "2025-01-02", "", "r1", "Yes") :
        u \in Uris, c \in CompetitorIds}
InitProfile ==
    LoadedLeague(ProfileCompetitors,
                 {r \in LeagueRounds : r.id = "r1"},
                 ProfileSubmissions,
                 StatsVotes)
NextProfile ==
    \/ \E c \in CompetitorIds : CompetitorStats(c)
    \/ AveragePointsPerCompetitor
SpecProfile == InitProfile /\ [][NextProfile]_vars

\* the vote statistics that sum points, on votes with any points_assigned text
PointsTexts ==
    {Two, Ten, Blank, NotApplicable, MinusOne, PlusTwo, Fraction, Squared, ArabicThree}
PointsVotes == {Vote("t1", "c1", "2025-01-03", p, "", "r1") : p \in PointsTexts}
InitPoints == LoadedLeague({}, {}, {}, PointsVotes)
NextPoints ==
    \/ HighestScoringSubmission
    \/ MostGenerousVoter
    \/ MostCriticalVoter
SpecPoints == InitPoints /\ [][NextPoints]_vars

\* every query on leagues whose submissions and votes may name a competitor,
\* a round or a track that no store holds
DanglingSubmissions ==
    {Submission("t1", "Title", "Album", "Artist", "c1", "2025-01-02", "", "r1", "Yes"),
     Submission("t2", "Title", "Album", "Artist", "c2", "2025-01-02", "", "r2", "Yes")}
DanglingVotes ==
    {Vote("t1", "c1", "2025-01-03", Two, "", "r1"),
     Vote("t2", "c2", "2025-01-03", Two, "", "r2"),
     Vote("t1", "c2", "2025-01-03", Squared, "", "r1")}
InitDangling ==
    LoadedLeague({Competitor("c1", "Ann")},
                 {r \in LeagueRounds : r.id = "r1"},
                 DanglingSubmissions,
                 DanglingVotes)
NextDangling ==
    \/ \E c \in CompetitorIds : GetSubmissionsByCompetitor(c)
    \/ \E c \in CompetitorIds : GetVotesByCompetitor(c)
    \/ \E c \in CompetitorIds : GetRoundsForCompetitor(c)
    \/ \E c \in CompetitorIds : TallyCompetitorScore(c)
    \/ \E r \in RoundIds : TallyScoresByRound(r)
    \/ GetLeaderboard
    \/ MostVotedSubmission
    \/ HighestScoringSubmission
    \/ AveragePointsPerCompetitor
    \/ MostGenerousVoter
    \/ MostCriticalVoter
    \/ \E c \in CompetitorIds : CompetitorStats(c)
SpecDangling == InitDangling /\ [][NextDangling]_vars

----------------------------------------------------------------------------
(* Vocabulary of the store claims.  A step is identified by the call it    *)
(* records in result'; the unprimed variables are the stores before it.    *)

HasCompetitor(list, k) == \E i \in 1..Len(list) : list[i].id = k
HasRound(list, k) == \E i \in 1..Len(list) : list[i].id = k
HasSubmission(list, k) == \E i \in 1..Len(list) : list[i].spotify_uri = k
HasVote(list, u, c, r) ==
    \E i \in 1..Len(list) :
        list[i].spotify_uri = u /\ list[i].voter_id = c /\ list[i].round_id = r

\* new is old with one more record, rec, at the end
AppendedLast(old, new, rec) ==
    /\ Len(new) = Len(old) + 1
    /\ \A i \in 1..Len(old) : new[i] = old[i]
    /\ new[Len(new)] = rec

\* new is old without its i-th record, the others in the same order
Without(old, new, i) ==
    /\ Len(new) = Len(old) - 1
    /\ \A j \in 1..Len(new) : new[j] = IF j < i THEN old[j] ELSE old[j + 1]

\* C3: in the Competitors, Rounds and Submissions stores an add whose key is
\* already present returns None without raising, leaves the list as it was
\* (length, content, order, the stored record's fields) and does not save.
C3_DuplicateAddIsNoOp ==
    [][
        /\ (result'.op = "add_competitor" /\ HasCompetitor(competitors, result'.args[1]))
            => /\ result'.ret = None /\ result'.raised = "None"
               /\ competitors' = competitors
               /\ ~result'.saved /\ competitors_csv' = competitors_csv
        /\ (result'.op = "add_round" /\ HasRound(rounds, result'.args[1]))
            => /\ result'.ret = None /\ result'.raised = "None"
               /\ rounds' = rounds
               /\ ~result'.saved /\ rounds_csv' = rounds_csv
        /\ (result'.op = "add_submission" /\ HasSubmission(submissions, result'.args[1]))
            => /\ result'.ret = None /\ result'.raised = "None"
               /\ submissions' = submissions
               /\ ~result'.saved /\ submissions_csv' = submissions_csv
    ]_vars

\* a rejected add_submission whose arguments differ from the stored record
C3_Witness ==
    /\ result.op = "add_submission"
    /\ result.ret = None
    /\ \E i \in 1..Len(submissions) :
          /\ submissions[i].spotify_uri = result.args[1]
          /\ submissions[i].submitter_id # result.args[5]

NoTwoVotesShareKey(list) ==
    \A i, j \in 1..Len(list) :
        (/\ list[i].spotify_uri = list[j].spotify_uri
         /\ list[i].voter_id = list[j].voter_id
         /\ list[i].round_id = list[j].round_id) => i = j

\* C4: the Votes store keeps (spotify_uri, voter_id, round_id) unique: an add
\* of a vote whose triple is already stored leaves the list's length
\* unchanged, so add and remove never make two votes share a triple.
C4_VoteKeyUnique ==
    [][
        /\ (result'.op = "add_vote"
            /\ HasVote(votes, result'.args[1], result'.args[2], result'.args[6]))
            => Len(votes') = Len(votes)
        /\ NoTwoVotesShareKey(votes) => NoTwoVotesShareKey(votes')
    ]_vars

\* C5: in the Competitors, Rounds and Submissions stores an add whose key is
\* absent appends the record as the last element (earlier elements keep
\* their positions, the list grows by one) and get_by_key then returns a
\* record whose every field is the argument passed.
C5_AddAppendsRecord ==
    [][
        /\ (result'.op = "add_competitor" /\ ~HasCompetitor(competitors, result'.args[1]))
            => LET a == result'.args
                   rec == [id |-> a[1], name |-> a[2]]
               IN  /\ AppendedLast(competitors, competitors', rec)
                   /\ CompetitorsManager_get_by_id(competitors', a[1]) = Some(rec)
        /\ (result'.op = "add_round" /\ ~HasRound(rounds, result'.args[1]))
            => LET a == result'.args
                   rec == [id |-> a[1], time_created |-> a[2], name |-> a[3],
                           description |-> a[4], playlist_url |-> a[5]]
               IN  /\ AppendedLast(rounds, rounds', rec)
                   /\ RoundsManager_get_by_id(rounds', a[1]) = Some(rec)
        /\ (result'.op = "add_submission" /\ ~HasSubmission(submissions, result'.args[1]))
            => LET a == result'.args
                   rec == [spotify_uri |-> a[1], title |-> a[2], album |-> a[3],
                           artists |-> a[4], submitter_id |-> a[5],
                           created |-> a[6], comment |-> a[7], round_id |-> a[8],
                           visible_to_voters |-> a[9]]
               IN  /\ AppendedLast(submissions, submissions', rec)
                   /\ SubmissionsManager_get_by_spotify_uri(submissions', a[1]) = Some(rec)
    ]_vars

\* an accepted add_round that appended behind a round already stored
C5_Witness ==
    /\ result.op = "add_round"
    /\ result.ret # None
    /\ Len(rounds) >= 2
    /\ rounds[Len(rounds)].id = result.args[1]

\* the statement of C6 for one store: present says whether the key was stored
RemoveAsClaimed(old, new, present, ret, absentAfter) ==
    /\ ret = Some(present)
    /\ present => /\ Len(new) = Len(old) - 1
                  /\ \E i \in 1..Len(old) : Without(old, new, i)
                  /\ absentAfter
    /\ ~present => new = old

\* C6 as claimed: remove(key) returns true exactly when the key is present;
\* then the list shrinks by one, the remaining records keep their order and
\* get_by_key for that key returns None; otherwise it returns false and the
\* list is unchanged.
C6_RemoveAsClaimed ==
    [][
        /\ result'.op = "remove_competitor"
            => RemoveAsClaimed(competitors, competitors',
                   HasCompetitor(competitors, result'.args[1]), result'.ret,
                   CompetitorsManager_get_by_id(competitors', result'.args[1]) = None)
        /\ result'.op = "remove_round"
            => RemoveAsClaimed(rounds, rounds',
                   HasRound(rounds, result'.args[1]), result'.ret,
                   RoundsManager_get_by_id(rounds', result'.args[1]) = None)
        /\ result'.op = "remove_submission"
            => RemoveAsClaimed(submissions, submissions',
                   HasSubmission(submissions, result'.args[1]), result'.ret,
                   SubmissionsManager_get_by_spotify_uri(submissions', result'.args[1]) = None)
    ]_vars

\* the amended statement for one store: first is the index of the first
\* record with the key (0 when there is none), more says whether another
\* record with the key follows it
RemoveFirst(old, new, first, more, ret, absentAfter) ==
    /\ ret = Some(first # 0)
    /\ first # 0 => /\ Without(old, new, first)
                    /\ absentAfter <=> ~more
    /\ first = 0 => new = old

KeyedFirst(keys, k) ==
    IF \E i \in 1..Len(keys) : keys[i] = k
    THEN CHOOSE i \in 1..Len(keys) : keys[i] = k /\ \A j \in 1..(i - 1) : keys[j] # k
    ELSE 0

KeyedCount(keys, k) == Cardinality({i \in 1..Len(keys) : keys[i] = k})

CompetitorKeys == [i \in 1..Len(competitors) |-> competitors[i].id]
RoundKeys == [i \in 1..Len(rounds) |-> rounds[i].id]
SubmissionKeys == [i \in 1..Len(submissions) |-> submissions[i].spotify_uri]

\* C6 (amended): remove(key) returns true exactly when the key is present;
\* then exactly the first record with that key is removed, the others keep
\* their order, and get_by_key for that key returns None exactly when the
\* key was stored once; otherwise it returns false and the list is unchanged.
C6_RemoveFirstMatch ==
    [][
        /\ result'.op = "remove_competitor"
            => RemoveFirst(competitors, competitors',
                   KeyedFirst(CompetitorKeys, result'.args[1]),
                   KeyedCount(CompetitorKeys, result'.args[1]) > 1, result'.ret,
                   CompetitorsManager_get_by_id(competitors', result'.args[1]) = None)
        /\ result'.op = "remove_round"
            => RemoveFirst(rounds, rounds',
                   KeyedFirst(RoundKeys, result'.args[1]),
                   KeyedCount(RoundKeys, result'.args[1]) > 1, result'.ret,
                   RoundsManager_get_by_id(rounds', result'.args[1]) = None)
        /\ result'.op = "remove_submission"
            => RemoveFirst(submissions, submissions',
                   KeyedFirst(SubmissionKeys, result'.args[1]),
                   KeyedCount(SubmissionKeys, result'.args[1]) > 1, result'.ret,
                   SubmissionsManager_get_by_spotify_uri(submissions', result'.args[1]) = None)
    ]_vars

\* a successful remove_submission that left two records, one of them with
\* the removed key
C6_Witness ==
    /\ result.op = "remove_submission"
    /\ result.ret = Some(TRUE)
    /\ Len(submissions) = 2
    /\ HasSubmission(submissions, result.args[1])

\* C10: a remove on the Competitors, Rounds or Submissions store changes
\* neither the lists nor the files of the other three stores.
C10_RemoveDoesNotCascade ==
    [][
        /\ result'.op = "remove_competitor"
            => UNCHANGED <<rounds, submissions, votes,
                           rounds_csv, submissions_csv, votes_csv>>
        /\ result'.op = "remove_round"
            => UNCHANGED <<competitors, submissions, votes,
                           competitors_csv, submissions_csv, votes_csv>>
        /\ result'.op = "remove_submission"
            => UNCHANGED <<competitors, rounds, votes,
                           competitors_csv, rounds_csv, votes_csv>>
    ]_vars

\* a competitor was removed and a submission and a vote still name it
C10_Witness ==
    /\ result.op = "remove_competitor"
    /\ result.ret = Some(TRUE)
    /\ ~HasCompetitor(competitors, result.args[1])
    /\ \E i \in 1..Len(submissions) : submissions[i].submitter_id = result.args[1]
    /\ \E i \in 1..Len(votes) : votes[i].voter_id = result.args[1]
    /\ submissions_csv = submissions /\ votes_csv = votes

\* the store a call of op works on is held unchanged by its file after the call
PersistedAfter(op) ==
    /\ op \in {"add_competitor", "remove_competitor"} => competitors_csv' = competitors'
    /\ op \in {"add_round", "remove_round"} => rounds_csv' = rounds'
    /\ op \in {"add_submission", "remove_submission"} => submissions_csv' = submissions'
    /\ op \in {"add_vote", "remove_vote"} => votes_csv' = votes'

\* C11: a call that returns keeps every file equal to its in-memory list when
\* they were equal before it (same records, same order); when it added or
\* removed a record, the file of its store holds exactly the in-memory list
\* afterwards; a rejected add and a remove of an absent key change neither the
\* lists nor the files.
C11_PersistedEqualsMemory ==
    [][result'.raised = "None" =>
          /\ (files = memory) => (files' = memory')
          /\ result'.saved => PersistedAfter(result'.op)
          /\ ~result'.saved => UNCHANGED <<memory, files>>]_vars

\* a remove that was persisted after an earlier write of that store had failed
C11_Witness ==
    /\ result.op = "remove_competitor"
    /\ result.saved /\ result.raised = "None"
    /\ competitors_csv = competitors
    /\ votes_csv # votes

\* C12: when _save_* fails inside an add or a remove, the call fails and the
\* in-memory lists are as before the call (the managers hold a path and a
\* list and no flag that could mark the store unsynced, so rolling back is
\* the only way to meet the claim).
C12_FailedPersistRolledBack ==
    [][(medium = "unwritable" /\ medium' = medium /\ result'.saved) =>
          /\ result'.raised # "None"
          /\ memory' = memory]_vars

----------------------------------------------------------------------------
(* Vocabulary of the aggregator claims.  The expected values are written   *)
(* over the stores directly, by index, and not with the League operators.  *)

\* the sum of f over the finite set S
RECURSIVE SetSum(_, _)
SetSum(S, f) ==
    IF S = {} THEN 0
    ELSE LET x == CHOOSE x \in S : TRUE IN f[x] + SetSum(S \ {x}, f)

\* the text is a non-negative integer literal
Numeric(text) ==
    /\ text # << >>
    /\ \A i \in 1..Len(text) : text[i] \in DecimalChars

\* the votes (by index) with numeric points on the i-th submission's track
NumericVotesOn(i) ==
    {j \in 1..Len(votes) :
        /\ votes[j].spotify_uri = submissions[i].spotify_uri
        /\ Numeric(votes[j].points_assigned)}

SubmissionsOf(c) == {i \in 1..Len(submissions) : submissions[i].submitter_id = c}

\* the injections from board positions to store positions that pair every
\* entry with a record equal to its competitor
Pairings(board) ==
    {f \in [1..Len(board) -> 1..Len(competitors)] :
        /\ \A i, j \in 1..Len(board) : f[i] = f[j] => i = j
        /\ \A i \in 1..Len(board) : board[i].competitor = competitors[f[i]]}

\* C1: the list get_leaderboard returns is ordered by score, highest first,
\* and entries with equal scores are in the order of their competitors in
\* the Competitors store.
C1_LeaderboardOrdered ==
    (result.op = "get_leaderboard" /\ result.raised = "None") =>
        LET board == result.ret[1]
        IN  /\ \A i, j \in 1..Len(board) :
                   i < j => board[i].score >= board[j].score
            /\ \E f \in Pairings(board) :
                   \A i, j \in 1..Len(board) :
                       (i < j /\ board[i].score = board[j].score) => f[i] < f[j]

\* a leaderboard whose first entry is the second competitor of the store
C1_Witness ==
    /\ result.op = "get_leaderboard"
    /\ result.raised = "None"
    /\ Len(competitors) = 2
    /\ competitors[1] # competitors[2]
    /\ result.ret[1][1].competitor = competitors[2]
    /\ result.ret[1][1].score > result.ret[1][2].score

\* the sum of the numeric points of the votes whose track is the track of
\* some submission of c, each vote once
ExpectedScore(c) ==
    LET counted == {j \in 1..Len(votes) :
                       /\ Numeric(votes[j].points_assigned)
                       /\ \E i \in SubmissionsOf(c) :
                              submissions[i].spotify_uri = votes[j].spotify_uri}
    IN  SetSum(counted, [j \in counted |-> DecimalNumber(votes[j].points_assigned)])

\* C2: tally_competitor_score(c) is the sum of the integer values of
\* points_assigned over the votes on tracks submitted by c whose
\* points_assigned is numeric, each vote counted once; other votes add
\* nothing.
C2_ScoreIsSumOfNumericVotes ==
    result.op = "tally_competitor_score" =>
        /\ result.raised = "None"
        /\ result.ret = Some(ExpectedScore(result.args[1]))

\* C7 as claimed: get_rounds_for_competitor(c) returns as many records as
\* there are distinct round_id values among the submissions of c, whether
\* or not those round_ids name a Round record.
C7_RoundsCountIsDistinctRoundIds ==
    result.op = "get_rounds_for_competitor" =>
        Len(result.ret[1]) =
            Cardinality({submissions[i].round_id : i \in SubmissionsOf(result.args[1])})

\* C7 (amended): get_rounds_for_competitor(c) returns as many records as
\* the Rounds store holds records whose id is a round_id of a submission
\* of c; that is the number of distinct round_ids among the submissions
\* of c when each of them names exactly one Round record.
C7_RoundsCountIsMatchingRounds ==
    result.op = "get_rounds_for_competitor" =>
        LET ids == {submissions[i].round_id : i \in SubmissionsOf(result.args[1])}
            Named(k) == {i \in 1..Len(rounds) : rounds[i].id = k}
        IN  /\ Len(result.ret[1]) =
                   Cardinality({i \in 1..Len(rounds) : rounds[i].id \in ids})
            /\ (\A k \in ids : Cardinality(Named(k)) = 1)
                   => Len(result.ret[1]) = Cardinality(ids)

\* two submissions of the competitor in one stored round give one record
C7_Witness ==
    /\ result.op = "get_rounds_for_competitor"
    /\ Cardinality(SubmissionsOf(result.args[1])) = 2
    /\ Len(rounds) = 2
    /\ Len(result.ret[1]) = 1

\* the numeric points of all votes on the tracks of the submissions of c
\* in round r, a vote counted once per such submission
ExpectedRoundScore(r, c) ==
    LET pairs == {p \in (1..Len(submissions)) \X (1..Len(votes)) :
                     /\ submissions[p[1]].round_id = r
                     /\ submissions[p[1]].submitter_id = c
                     /\ p[2] \in NumericVotesOn(p[1])}
    IN  SetSum(pairs, [p \in pairs |-> DecimalNumber(votes[p[2]].points_assigned)])

\* C8: tally_scores_by_round(r) is a mapping whose keys are exactly the
\* submitter_ids of the submissions in round r and whose value for a
\* submitter is the sum, over that submitter's submissions in r, of the
\* numeric points of all votes on the submission's track (0 when none).
C8_RoundScoreTable ==
    result.op = "tally_scores_by_round" =>
        /\ result.raised = "None"
        /\ LET table == result.ret[1]
               r == result.args[1]
           IN  /\ DictKeys(table) =
                      {submissions[i].submitter_id :
                          i \in {k \in 1..Len(submissions) : submissions[k].round_id = r}}
               /\ \A i, j \in 1..Len(table) : table[i].key = table[j].key => i = j
               /\ \A i \in 1..Len(table) :
                      table[i].value = ExpectedRoundScore(r, table[i].key)

\* C9: get_leaderboard returns one entry per record of the Competitors
\* store, and the entry of a competitor without submissions has score 0,
\* rounds 0 and avg_score 0.
C9_LeaderboardListsEveryCompetitor ==
    result.op = "get_leaderboard" =>
        /\ result.raised = "None"
        /\ LET board == result.ret[1]
           IN  /\ Len(board) = Len(competitors)
               /\ Pairings(board) # {}
               /\ \A i \in 1..Len(board) :
                      SubmissionsOf(board[i].competitor.id) = {}
                          => /\ board[i].score = 0
                             /\ board[i].rounds = 0
                             /\ board[i].avg_score = Zero

----------------------------------------------------------------------------
(* Vocabulary of the statistics claims.                                    *)

\* the summed numeric points of the votes on the i-th submission's track
SubmissionPoints(i) ==
    SetSum(NumericVotesOn(i),
           [j \in NumericVotesOn(i) |-> DecimalNumber(votes[j].points_assigned)])

\* C13: in the record competitor_stats(c) returns, best_submission is None
\* when c has no submission; otherwise it holds the submission of c whose
\* summed numeric points are greatest (0 points included), and of several
\* with the greatest points the one that comes first in the Submissions
\* store.
C13_BestSubmission ==
    result.op = "competitor_stats" =>
        /\ result.raised = "None"
        /\ LET mine == SubmissionsOf(result.args[1])
               best == result.ret[1].best_submission
           IN  /\ mine = {} => best = None
               /\ mine # {} =>
                      \E i \in mine :
                          /\ best = Some(<<submissions[i], SubmissionPoints(i)>>)
                          /\ \A k \in mine :
                                 /\ SubmissionPoints(k) <= SubmissionPoints(i)
                                 /\ k < i => SubmissionPoints(k) < SubmissionPoints(i)

\* C14: the record competitor_stats(c) returns has an entry
\* avg_score_per_round (the key CompetitorStats.update_stats reads) whose
\* value is the score divided by the rounds-participated count, and 0 when
\* that count is 0.
C14_ProfileHasAverage ==
    (result.op = "competitor_stats" /\ result.raised = "None") =>
        LET stats == result.ret[1]
            n == stats.rounds_participated
        IN  /\ "avg_score_per_round" \in DOMAIN stats
            /\ stats.avg_score_per_round =
                   IF n # 0 THEN TrueDiv(stats.total_votes_received, n) ELSE Zero

\* the votes (by index) with numeric points cast by voter on a track of a
\* submission of c
NumericVotesFromTo(voter, c) ==
    {j \in 1..Len(votes) :
        /\ votes[j].voter_id = voter
        /\ Numeric(votes[j].points_assigned)
        /\ \E i \in SubmissionsOf(c) :
               submissions[i].spotify_uri = votes[j].spotify_uri}

\* the keys of the mapping are the givers (side = 1) or the receivers
\* (side = 2) of the pairs (giver, receiver) of flows that have a numeric
\* vote, each with the sum of those votes' points
IsPointFlow(mapping, flows, side) ==
    /\ \A i, j \in 1..Len(mapping) : mapping[i].key = mapping[j].key => i = j
    /\ DictKeys(mapping) = {f[side] : f \in {g \in flows : NumericVotesFromTo(g[1], g[2]) # {}}}
    /\ \A f \in flows :
           LET counted == NumericVotesFromTo(f[1], f[2])
           IN  counted # {} =>
                   DictGet(mapping, f[side], -1) =
                       SetSum(counted,
                              [j \in counted |-> DecimalNumber(votes[j].points_assigned)])

\* C15: the record competitor_stats(c) returns has the two point-flow
\* mappings (under the keys CompetitorStats.update_stats reads):
\* points_received_by_player from every voter who gave c numeric points to
\* the total that voter gave c, and points_given_to_player from every
\* submitter c gave numeric points to the total c gave them; nobody else is
\* a key of either.
C15_ProfileHasPointFlows ==
    (result.op = "competitor_stats" /\ result.raised = "None") =>
        LET stats == result.ret[1]
            c == result.args[1]
            voters == {votes[j].voter_id : j \in 1..Len(votes)}
            submitters == {submissions[i].submitter_id : i \in 1..Len(submissions)}
        IN  /\ {"points_received_by_player", "points_given_to_player"} \subseteq DOMAIN stats
            /\ IsPointFlow(stats.points_received_by_player, voters \X {c}, 1)
            /\ IsPointFlow(stats.points_given_to_player, {c} \X submitters, 2)

\* the votes (by index) on the track u
VotesOnTrack(u) == {j \in 1..Len(votes) : votes[j].spotify_uri = u}

\* the least element of a non-empty set of indices
First(S) == CHOOSE j \in S : \A k \in S : j <= k

\* C16: most_voted_submission returns None when the Votes store is empty;
\* otherwise it returns the track with the most vote records, whatever
\* their points_assigned, with that number, and of several tracks with the
\* most records the one whose first vote comes first in the Votes store.
C16_MostVotedSubmission ==
    result.op = "most_voted_submission" =>
        /\ result.raised = "None"
        /\ votes = << >> => result.ret = Some(None)
        /\ votes # << >> =>
               \E u \in {votes[j].spotify_uri : j \in 1..Len(votes)} :
                   /\ result.ret = Some(Some(<<u, Cardinality(VotesOnTrack(u))>>))
                   /\ \A w \in {votes[j].spotify_uri : j \in 1..Len(votes)} \ {u} :
                          \/ Cardinality(VotesOnTrack(w)) < Cardinality(VotesOnTrack(u))
                          \/ /\ Cardinality(VotesOnTrack(w)) = Cardinality(VotesOnTrack(u))
                             /\ First(VotesOnTrack(u)) < First(VotesOnTrack(w))

\* two tracks with one vote each, the first of them voted on with
\* non-numeric points, and the first is returned
C16_Witness ==
    /\ result.op = "most_voted_submission"
    /\ Len(votes) = 2
    /\ votes[1].spotify_uri # votes[2].spotify_uri
    /\ votes[1].points_assigned = NotApplicable
    /\ votes[2].points_assigned = Two
    /\ result.ret = Some(Some(<<votes[1].spotify_uri, 1>>))

\* the votes (by index) with numeric points cast by the voter v
NumericVotesBy(v) ==
    {j \in 1..Len(votes) :
        votes[j].voter_id = v /\ Numeric(votes[j].points_assigned)}

\* the total numeric points the voter v gave
PointsGivenBy(v) ==
    SetSum(NumericVotesBy(v),
           [j \in NumericVotesBy(v) |-> DecimalNumber(votes[j].points_assigned)])

\* the voters with at least one numeric vote
NumericVoters == {v \in {votes[j].voter_id : j \in 1..Len(votes)} : NumericVotesBy(v) # {}}

\* C17: most_generous_voter and most_critical_voter return None when no
\* vote is numeric; otherwise they return, with the total, the voter whose
\* total numeric points are greatest (generous) or least (critical) among
\* the voters with at least one numeric vote, and of several such voters
\* the one whose first numeric vote comes first in the Votes store.
C17_GenerousAndCriticalVoter ==
    result.op \in {"most_generous_voter", "most_critical_voter"} =>
        /\ result.raised = "None"
        /\ NumericVoters = {} => result.ret = Some(None)
        /\ NumericVoters # {} =>
               \E v \in NumericVoters :
                   /\ result.ret = Some(Some(<<v, PointsGivenBy(v)>>))
                   /\ \A w \in NumericVoters \ {v} :
                          \/ /\ result.op = "most_generous_voter"
                             /\ PointsGivenBy(w) < PointsGivenBy(v)
                          \/ /\ result.op = "most_critical_voter"
                             /\ PointsGivenBy(w) > PointsGivenBy(v)
                          \/ /\ PointsGivenBy(w) = PointsGivenBy(v)
                             /\ First(NumericVotesBy(v)) < First(NumericVotesBy(w))

\* C18: average_points_per_competitor has a key c exactly when c is the id
\* of a record of the Competitors store and c has a submission; the value
\* of c is the numeric points of the votes on the tracks of the submissions
\* of c, summed over those submissions, divided by their number.
C18_AveragePointsPerCompetitor ==
    result.op = "average_points_per_competitor" =>
        /\ result.raised = "None"
        /\ LET averages == result.ret[1]
           IN  /\ \A i, j \in 1..Len(averages) :
                      averages[i].key = averages[j].key => i = j
               /\ DictKeys(averages) =
                      {c \in {competitors[k].id : k \in 1..Len(competitors)} :
                          SubmissionsOf(c) # {}}
               /\ \A i \in 1..Len(averages) :
                      LET mine == SubmissionsOf(averages[i].key)
                      IN  averages[i].value =
                              TrueDiv(SetSum(mine, [k \in mine |-> SubmissionPoints(k)]),
                                      Cardinality(mine))

\* the submitter of the first submission with the track of the j-th vote
TargetOf(j) ==
    submissions[First({i \in 1..Len(submissions) :
                          submissions[i].spotify_uri = votes[j].spotify_uri})].submitter_id

\* the votes (by index) cast by c on a track that some submission has
VotesCastBy(c) ==
    {j \in 1..Len(votes) :
        /\ votes[j].voter_id = c
        /\ \E i \in 1..Len(submissions) :
               submissions[i].spotify_uri = votes[j].spotify_uri}

\* the votes (by index) cast by c whose target is the submitter s
VotesCastFor(c, s) == {j \in VotesCastBy(c) : TargetOf(j) = s}

\* the first record of the Competitors store with the id, None without one
CompetitorRecord(id) ==
    IF \E k \in 1..Len(competitors) : competitors[k].id = id
    THEN Some(competitors[First({k \in 1..Len(competitors) : competitors[k].id = id})])
    ELSE None

\* C19: in the record competitor_stats(c) returns, most_often_voted_for is
\* None when c cast no vote on a track that some submission has; otherwise
\* it names, with the number of those votes, the submitter who is the
\* target of the most votes cast by c (numeric or not), and of several
\* such submitters the one whose first vote from c comes first in the Votes
\* store.  The submitter is given as the Competitors record with that id
\* (None when there is none).
C19_MostOftenVotedFor ==
    result.op = "competitor_stats" =>
        /\ result.raised = "None"
        /\ LET c == result.args[1]
               most == result.ret[1].most_often_voted_for
               targets == {TargetOf(j) : j \in VotesCastBy(c)}
           IN  /\ VotesCastBy(c) = {} => most = None
               /\ VotesCastBy(c) # {} =>
                      \E s \in targets :
                          /\ most = Some(<<CompetitorRecord(s),
                                           Cardinality(VotesCastFor(c, s))>>)
                          /\ \A w \in targets \ {s} :
                                 \/ Cardinality(VotesCastFor(c, w))
                                        < Cardinality(VotesCastFor(c, s))
                                 \/ /\ Cardinality(VotesCastFor(c, w))
                                           = Cardinality(VotesCastFor(c, s))
                                    /\ First(VotesCastFor(c, s)) < First(VotesCastFor(c, w))

\* the votes (by index) with numeric points
NumericVotes == {j \in 1..Len(votes) : Numeric(votes[j].points_assigned)}

\* C20: whatever the points_assigned texts of the votes are,
\* highest_scoring_submission, most_generous_voter and most_critical_voter
\* return; they return None when no vote is numeric, and otherwise a total
\* that is the sum of the values of the numeric votes of the returned track
\* or voter, the other votes adding nothing.
C20_MalformedPointsExcluded ==
    result.op \in {"highest_scoring_submission", "most_generous_voter",
                   "most_critical_voter"} =>
        /\ result.raised = "None"
        /\ NumericVotes = {} <=> result.ret = Some(None)
        /\ NumericVotes # {} =>
               LET key == result.ret[1][1][1]
                   counted ==
                       {j \in NumericVotes :
                           IF result.op = "highest_scoring_submission"
                           THEN votes[j].spotify_uri = key
                           ELSE votes[j].voter_id = key}
               IN  result.ret[1][1][2] =
                       SetSum(counted,
                              [j \in counted |-> DecimalNumber(votes[j].points_assigned)])

\* some submission names a competitor or a round that no store holds, or
\* some vote names a track or a voter that no store holds
HasDanglingReference ==
    \/ \E i \in 1..Len(submissions) :
           \/ ~HasCompetitor(competitors, submissions[i].submitter_id)
           \/ ~HasRound(rounds, submissions[i].round_id)
    \/ \E j \in 1..Len(votes) :
           \/ ~HasSubmission(submissions, votes[j].spotify_uri)
           \/ ~HasCompetitor(competitors, votes[j].voter_id)

\* an entry of the profile that names a competitor: None, or a count or a
\* total with the Competitors record of an id, None standing for an id that
\* no record has
ResolvedOrAbsent(entry) ==
    \/ entry = None
    \/ entry[1][1] = None
    \/ \E k \in 1..Len(competitors) : entry[1][1] = Some(competitors[k])

\* C21: in a league with a dangling reference every aggregator and
\* statistics query returns, and the competitors that competitor_stats names
\* are given as a Competitors record or as None.
C21_DanglingReferencesTolerated ==
    (HasDanglingReference /\ result.op # "load") =>
        /\ result.raised = "None"
        /\ result.op = "competitor_stats" =>
               /\ ResolvedOrAbsent(result.ret[1].most_often_voted_for)
               /\ ResolvedOrAbsent(result.ret[1].most_points_given_to)
               /\ ResolvedOrAbsent(result.ret[1].most_often_votes_from)
               /\ ResolvedOrAbsent(result.ret[1].most_points_from)

\* no two positions of the sequence of keys hold the same key
DistinctKeys(keys) == \A i, j \in 1..Len(keys) : keys[i] = keys[j] => i = j

\* C22: an add or a remove on the Competitors, Rounds or Submissions store
\* whose records have pairwise distinct keys leaves a store whose records
\* have pairwise distinct keys; so a store loaded with distinct keys keeps
\* them distinct through every sequence of adds and removes.
C22_KeysStayUnique ==
    [][/\ DistinctKeys(CompetitorKeys) => DistinctKeys(CompetitorKeys)'
       /\ DistinctKeys(RoundKeys) => DistinctKeys(RoundKeys)'
       /\ DistinctKeys(SubmissionKeys) => DistinctKeys(SubmissionKeys)'
      ]_vars

\* an add_competitor rejected for an id that one of two stored records has
C22_Witness ==
    /\ result.op = "add_competitor"
    /\ result.ret = None
    /\ Len(competitors) = 2
    /\ DistinctKeys(CompetitorKeys)
    /\ DistinctKeys(RoundKeys) /\ DistinctKeys(SubmissionKeys)

\* C23: when the tracks of the submissions are pairwise distinct,
\* tally_competitor_score(c) is the sum, over the distinct round_ids of the
\* Submissions store, of the value of c in tally_scores_by_round(r), taken
\* as 0 when c is no key of it, whatever round_id the votes carry.
C23_ScoringPathsAgree ==
    (result.op = "tally_competitor_score" /\ DistinctKeys(SubmissionKeys)) =>
        LET c == result.args[1]
            round_ids == {submissions[i].round_id : i \in 1..Len(submissions)}
        IN  /\ result.raised = "None"
            /\ \A r \in round_ids : tally_scores_by_round(r).raised = "None"
            /\ result.ret =
                   Some(SetSum(round_ids,
                               [r \in round_ids |->
                                   DictGet(tally_scores_by_round(r).value, c, 0)]))

====
